---- MODULE Spec2Model ----
(***************************************************************************)
(* Model of the pixel-synthesis core of the image tool in                  *)
(* src/exercise/z_final_project/src/main.rs: the `generate` subcommand     *)
(* (colour-argument parsing in main, then the stripe generator) and the    *)
(* `fractal` subcommand (gradient + escape-time loop).                     *)
(*                                                                         *)
(* Strings are sequences of one-character strings.  A Rust panic ends the  *)
(* process: pc = "panicked" and `panic` names the cause.                   *)
(*                                                                         *)
(* Numeric modelling:                                                      *)
(*  - usize/u32 arithmetic is unbounded here; at the model's sizes no      *)
(*    width * height or index overflows.                                   *)
(*  - `0.3 * x as f32` is modelled bit-exactly (24-bit significand, round  *)
(*    to nearest even), followed by Rust's truncating, saturating          *)
(*    float-to-u8 cast.                                                    *)
(*  - the orbit z of the escape-time loop is carried in fixed point with   *)
(*    FixScale units per 1.0 (products truncated); the loop's control      *)
(*    flow, guard and counter are those of the source.                     *)
(***************************************************************************)
EXTENDS Integers, Sequences, FiniteSets, TLC

VARIABLES
    pc,           \* position of the process
    command,      \* "generate" | "fractal"  (args.command)
    args,         \* Commands::Generate fields: width, height, stripe_orientation, colors
    colors,       \* Vec<Color> handed to generate
    imgbuf,       \* generate's ImageBuffer, row-major sequence of pixels
    next,         \* number of pixels generate's loop has written
    color_index,  \* generate's local color_index of the pixel last processed
    panic,        \* cause of the panic, "none" while running
    outfile,      \* "absent" | "written" | "partial"
    fx, fy,       \* fractal: coordinates of the pixel being computed
    red, blue,    \* fractal: gradient channels of that pixel
    z,            \* fractal: <<re, im>> in fixed point
    green,        \* fractal: iteration counter (u8)
    checks,       \* fractal: results of the z.norm() <= 2.0 tests of this pixel, in order
    pixel         \* fractal: the pixel last written, [x, y, rgb]

vars == <<pc, command, args, colors, imgbuf, next, color_index, panic, outfile,
          fx, fy, red, blue, z, green, checks, pixel>>

genVars == <<colors, imgbuf, next, color_index>>
fracVars == <<fx, fy, red, blue, z, green, checks, pixel>>

----------------------------------------------------------------------------
(* Bounds *)

MaxDim == 4
MaxColors == 3
SampleStride == 400

----------------------------------------------------------------------------
(* Colour arguments: `R:G:B` strings as the command line delivers them *)

Digits == <<"0", "1", "2", "3", "4", "5", "6", "7", "8", "9">>

IsDigit(ch) == \E d \in 1..10 : Digits[d] = ch

DigitVal(ch) == (CHOOSE d \in 1..10 : Digits[d] = ch) - 1

\* str::split(":"): the pieces between the separators, empty pieces included
RECURSIVE Split(_)
Split(s) ==
    IF \A i \in 1..Len(s) : s[i] # ":"
    THEN <<s>>
    ELSE LET i == CHOOSE j \in 1..Len(s) :
                      s[j] = ":" /\ \A k \in 1..(j - 1) : s[k] # ":"
         IN  <<SubSeq(s, 1, i - 1)>> \o Split(SubSeq(s, i + 1, Len(s)))

\* digit accumulation of u8::from_str with its overflow check; -1 is Err
RECURSIVE AccumulateU8(_, _)
AccumulateU8(ds, acc) ==
    IF ds = <<>> THEN acc
    ELSE IF ~IsDigit(Head(ds)) THEN -1
    ELSE LET v == acc * 10 + DigitVal(Head(ds))
         IN  IF v > 255 THEN -1 ELSE AccumulateU8(Tail(ds), v)

\* str::parse::<u8>(): the value, or -1 for Err(ParseIntError).
\* An unsigned parse accepts one leading "+", never "-", and needs a digit.
ParseU8(s) ==
    IF s = <<>> THEN -1
    ELSE LET ds == IF Head(s) = "+" THEN Tail(s) ELSE s
         IN  IF ds = <<>> THEN -1 ELSE AccumulateU8(ds, 0)

Color(r, g, b) == [red |-> r, green |-> g, blue |-> b]

\* The closure of main's colors.iter().map(...): vec_vals[i] panics when the
\* piece is missing, unwrap() panics on a parse error; fields in source order.
ParseColor(color_string) ==
    LET vec_vals == Split(color_string)
        comp(i) == IF Len(vec_vals) < i THEN "IndexOutOfBounds"
                   ELSE IF ParseU8(vec_vals[i]) = -1 THEN "ParseIntError"
                   ELSE "none"
        firstBad == IF comp(1) # "none" THEN comp(1)
                    ELSE IF comp(2) # "none" THEN comp(2)
                    ELSE comp(3)
    IN  IF firstBad # "none"
        THEN [panic |-> firstBad, color |-> Color(0, 0, 0)]
        ELSE [panic |-> "none",
              color |-> Color(ParseU8(vec_vals[1]), ParseU8(vec_vals[2]),
                              ParseU8(vec_vals[3]))]

\* .map(..).collect::<Vec<Color>>(): the first failing string panics
ParseColorList(strs) ==
    LET bad == {i \in 1..Len(strs) : ParseColor(strs[i]).panic # "none"}
    IN  IF bad = {}
        THEN [panic |-> "none",
              colors |-> [i \in 1..Len(strs) |-> ParseColor(strs[i]).color]]
        ELSE LET i == CHOOSE j \in bad : \A k \in bad : j <= k
             IN  [panic |-> ParseColor(strs[i]).panic, colors |-> <<>>]

Red255 == <<"2", "5", "5", ":", "0", ":", "0">>
Green255 == <<"0", ":", "2", "5", "5", ":", "0">>

\* the colour strings the model feeds to the generate command
ColorArgs ==
    { Red255,
      Green255,
      <<"7", ":", "8", ":", "9", ":", "4">>,
      <<"2", "5", "6", ":", "0", ":", "0">>,
      <<"1", ":", "2">>,
      <<"a", ":", "0", ":", "0">> }

ColorArgLists == UNION {[1..n -> ColorArgs] : n \in 0..MaxColors}

Orientations == {"Vertical", "Horizontal"}

NoArgs == [width |-> 0, height |-> 0, stripe_orientation |-> "Vertical", colors |-> <<>>]

----------------------------------------------------------------------------
(* generate *)

ZeroPixel == Color(0, 0, 0)

\* image::ImageBuffer::new(width, height): zeroed pixels, row-major
NewImageBuffer(width, height) == [i \in 1..(width * height) |-> ZeroPixel]

\* enumerate_pixels_mut yields (x, y) row by row
PixelX(i, width) == i % width
PixelY(i, width) == i \div width

\* variant: the two coordinates exchanged
ColorIndexSwapped(x, y, width, height, n, orientation) ==
    LET c == IF orientation = "Vertical" THEN y ELSE x
        axis == IF orientation = "Vertical" THEN width ELSE height
    IN  IF n = 0 THEN -1
        ELSE IF axis \div n = 0 THEN -1
        ELSE c \div (axis \div n)

\* variant: the band of a coordinate taken one pixel early
ColorIndexOffByOne(x, y, width, height, n, orientation) ==
    LET c == IF orientation = "Vertical" THEN x ELSE y
        axis == IF orientation = "Vertical" THEN width ELSE height
    IN  IF n = 0 THEN -1
        ELSE IF axis \div n = 0 THEN -1
        ELSE (c + 1) \div (axis \div n)

\* the match on stripe_orientation: -1 stands for the panic of either
\* division ("attempt to divide by zero"), otherwise the index
ColorIndex(x, y, width, height, n, orientation) ==
    LET c == IF orientation = "Vertical" THEN x ELSE y
        axis == IF orientation = "Vertical" THEN width ELSE height
    IN  IF n = 0 THEN -1
        ELSE IF axis \div n = 0 THEN -1
        ELSE c \div (axis \div n)

----------------------------------------------------------------------------
(* fractal *)

Width == 800
Height == 800

\* 0.3f32 = F32Mant03 * 2^-25, split in two 12-bit limbs for the product
F32Mant03 == 10066330
F32Mant03Hi == F32Mant03 \div 4096
F32Mant03Lo == F32Mant03 % 4096

RECURSIVE Pow2(_)
Pow2(k) == IF k = 0 THEN 1 ELSE 2 * Pow2(k - 1)

RECURSIVE BitLen(_)
BitLen(n) == IF n = 0 THEN 0 ELSE 1 + BitLen(n \div 2)

\* variant: the cast rounding to the nearest integer
F32Times03AsU8Nearest(x) ==
    LET nearest == (6 * x + 10) \div 20
    IN  IF nearest > 255 THEN 255 ELSE nearest

\* (0.3 * x as f32) as u8 for x below 2^12: the exact product
\* x * F32Mant03 * 2^-25 is rounded to a 24-bit significand (ties to even),
\* then the cast truncates toward zero and saturates at 255.
F32Times03AsU8(x) ==
    LET lo_raw == x * F32Mant03Lo
        hi == x * F32Mant03Hi + lo_raw \div 4096
        lo == lo_raw % 4096
        bits == IF hi = 0 THEN BitLen(lo) ELSE BitLen(hi) + 12
        shift == IF bits > 24 THEN bits - 24 ELSE 0
        q == hi * Pow2(12 - shift) + lo \div Pow2(shift)
        r == lo % Pow2(shift)
        half == IF shift = 0 THEN 0 ELSE Pow2(shift - 1)
        mant == IF shift > 0 /\ (r > half \/ (r = half /\ q % 2 = 1))
                THEN q + 1 ELSE q
        trunc == mant \div Pow2(25 - shift)
    IN  IF trunc > 255 THEN 255 ELSE trunc

FixScale == 4096

\* c = Complex::new(-0.4, 0.6)
CRe == (0 - 4 * FixScale) \div 10
CIm == (6 * FixScale) \div 10

\* cx = y * scale_x - 1.5, cy = x * scale_y - 1.5 with scale = 3.0 / 800
PlaneCoord(p, extent) == (p * 3 * FixScale) \div extent - (3 * FixScale) \div 2

\* z * z + c
ComplexStep(w) ==
    <<(w[1] * w[1] - w[2] * w[2]) \div FixScale + CRe,
      (2 * w[1] * w[2]) \div FixScale + CIm>>

\* z.norm() <= 2.0
NormWithin2(w) == w[1] * w[1] + w[2] * w[2] <= 4 * FixScale * FixScale

\* variant: the cap one iteration short
CounterBelowCapEarly(g) == g < 254

\* left operand of the while guard: green < 255
CounterBelowCap(g) == g < 255

\* The enumeration of the canvas, thinned: full rows and columns at
\* multiples of SampleStride, visited in enumerate_pixels_mut order.
Sampled(x, y) == x % SampleStride = 0 \/ y % SampleStride = 0

FirstPixel == <<0, 0>>

NextPixel(x, y) ==
    LET step == IF y % SampleStride = 0 THEN 1 ELSE SampleStride
    IN  IF x + step <= Width - 1 THEN <<x + step, y>> ELSE <<0, y + 1>>

\* the iterator is exhausted after the last row
HasNextPixel(x, y) == NextPixel(x, y)[2] <= Height - 1

----------------------------------------------------------------------------
(* State machine *)

Init ==
    /\ pc = "main"
    /\ command \in {"generate", "fractal"}
    /\ \/ /\ command = "generate"
          /\ args \in [width : 0..MaxDim, height : 0..MaxDim,
                       stripe_orientation : Orientations, colors : ColorArgLists]
       \/ /\ command = "fractal"
          /\ args = NoArgs
    /\ colors = <<>>
    /\ imgbuf = <<>>
    /\ next = 0
    /\ color_index = 0
    /\ panic = "none"
    /\ outfile = "absent"
    /\ fx = 0 /\ fy = 0 /\ red = 0 /\ blue = 0
    /\ z = <<0, 0>>
    /\ green = 0
    /\ checks = <<>>
    /\ pixel = [x |-> 0, y |-> 0, rgb |-> ZeroPixel]

\* main, Commands::Generate arm up to the call of generate
ParseColors ==
    /\ pc = "main" /\ command = "generate"
    /\ LET res == ParseColorList(args.colors)
       IN  IF res.panic # "none"
           THEN /\ pc' = "panicked"
                /\ panic' = res.panic
                /\ colors' = colors
           ELSE /\ pc' = "generate"
                /\ panic' = panic
                /\ colors' = res.colors
    /\ UNCHANGED <<command, args, imgbuf, next, color_index, outfile>>
    /\ UNCHANGED fracVars

\* generate: let mut imgbuf = ImageBuffer::new(width, height); loop entry
GenerateNew ==
    /\ pc = "generate"
    /\ imgbuf' = NewImageBuffer(args.width, args.height)
    /\ next' = 0
    /\ pc' = IF args.width * args.height = 0 THEN "save" ELSE "generate_loop"
    /\ UNCHANGED <<command, args, colors, color_index, panic, outfile>>
    /\ UNCHANGED fracVars

\* generate: one iteration of the for loop
GeneratePixel ==
    /\ pc = "generate_loop"
    /\ next < args.width * args.height
    /\ LET x == PixelX(next, args.width)
           y == PixelY(next, args.width)
           idx == ColorIndex(x, y, args.width, args.height, Len(colors),
                             args.stripe_orientation)
       IN  IF idx = -1
           THEN /\ pc' = "panicked"
                /\ panic' = "DivideByZero"
                /\ UNCHANGED <<imgbuf, color_index, next>>
           ELSE IF idx >= Len(colors)
           THEN /\ pc' = "panicked"
                /\ panic' = "ColorIndexOutOfBounds"
                /\ color_index' = idx
                /\ UNCHANGED <<imgbuf, next>>
           ELSE /\ color_index' = idx
                /\ imgbuf' = [imgbuf EXCEPT ![next + 1] = colors[idx + 1]]
                /\ next' = next + 1
                /\ pc' = IF next + 1 = args.width * args.height
                         THEN "save" ELSE "generate_loop"
                /\ panic' = panic
    /\ UNCHANGED <<command, args, colors, outfile>>
    /\ UNCHANGED fracVars

\* fractal: buffer creation and loop entry
FractalNew ==
    /\ pc = "main" /\ command = "fractal"
    /\ pc' = "fractal_pixel"
    /\ fx' = FirstPixel[1] /\ fy' = FirstPixel[2]
    /\ UNCHANGED <<command, args, panic, outfile, red, blue, z, green, checks, pixel>>
    /\ UNCHANGED genVars

\* fractal: loop body up to `let mut green = 0`
FractalPixel ==
    /\ pc = "fractal_pixel"
    /\ red' = F32Times03AsU8(fx)
    /\ blue' = F32Times03AsU8(fy)
    /\ z' = <<PlaneCoord(fy, Width), PlaneCoord(fx, Height)>>
    /\ green' = 0
    /\ checks' = <<>>
    /\ pc' = "fractal_while"
    /\ UNCHANGED <<command, args, panic, outfile, fx, fy, pixel>>
    /\ UNCHANGED genVars

\* while green < 255 && z.norm() <= 2.0 { z = z * z + c; green += 1; }
FractalIterate ==
    /\ pc = "fractal_while"
    /\ CounterBelowCap(green)
    /\ NormWithin2(z)
    /\ checks' = Append(checks, NormWithin2(z))
    /\ z' = ComplexStep(z)
    /\ green' = (green + 1) % 256
    /\ UNCHANGED <<pc, command, args, panic, outfile, fx, fy, red, blue, pixel>>
    /\ UNCHANGED genVars

\* the guard fails; *pixel = Rgb([red, green, blue]); the loop advances
FractalSetPixel ==
    /\ pc = "fractal_while"
    /\ ~(CounterBelowCap(green) /\ NormWithin2(z))
    /\ checks' = IF CounterBelowCap(green)
                 THEN Append(checks, NormWithin2(z)) ELSE checks
    /\ pixel' = [x |-> fx, y |-> fy, rgb |-> Color(red, green, blue)]
    /\ IF HasNextPixel(fx, fy)
       THEN /\ fx' = NextPixel(fx, fy)[1]
            /\ fy' = NextPixel(fx, fy)[2]
            /\ pc' = "fractal_pixel"
       ELSE /\ UNCHANGED <<fx, fy>>
            /\ pc' = "save"
    /\ UNCHANGED <<command, args, panic, outfile, red, blue, z, green>>
    /\ UNCHANGED genVars

\* imgbuf.save(outfile).unwrap(): the encoder succeeds, or fails and the
\* unwrap panics, leaving no file or an incomplete one
Save ==
    /\ pc = "save"
    /\ \/ /\ outfile' = "written"
          /\ pc' = "done"
          /\ panic' = panic
       \/ /\ outfile' \in {"absent", "partial"}
          /\ pc' = "panicked"
          /\ panic' = "SaveError"
    /\ UNCHANGED <<command, args>>
    /\ UNCHANGED genVars
    /\ UNCHANGED fracVars

Next ==
    \/ ParseColors
    \/ GenerateNew
    \/ GeneratePixel
    \/ FractalNew
    \/ FractalPixel
    \/ FractalIterate
    \/ FractalSetPixel
    \/ Save

Spec == Init /\ [][Next]_vars

TypeOK ==
    /\ pc \in {"main", "generate", "generate_loop", "fractal_pixel",
               "fractal_while", "save", "done", "panicked"}
    /\ green \in 0..255 /\ red \in 0..255 /\ blue \in 0..255
    /\ next \in 0..(args.width * args.height)
    /\ Len(imgbuf) \in {0, args.width * args.height}
    /\ Sampled(fx, fy) /\ fx \in 0..(Width - 1) /\ fy \in 0..(Height - 1)

----------------------------------------------------------------------------
(* Vocabulary of the properties *)

\* generate has been called: main's parsing did not panic
GenerateCalled ==
    /\ command = "generate"
    /\ pc # "main"
    /\ panic \notin {"ParseIntError", "IndexOutOfBounds"}

GeneratePanics == {"DivideByZero", "ColorIndexOutOfBounds"}

NumColors == Len(colors)

AxisLength == IF args.stripe_orientation = "Vertical" THEN args.width ELSE args.height

\* coordinate along the partitioned axis of the i-th pixel (i from 0)
AxisCoord(i) ==
    IF args.stripe_orientation = "Vertical"
    THEN PixelX(i, args.width) ELSE PixelY(i, args.width)

\* coordinate along the other axis
OrthoCoord(i) ==
    IF args.stripe_orientation = "Vertical"
    THEN PixelY(i, args.width) ELSE PixelX(i, args.width)

WrittenPixels == 0..(next - 1)

RECURSIVE DecimalValue(_)
DecimalValue(ds) ==
    IF ds = <<>> THEN 0
    ELSE 10 * DecimalValue(SubSeq(ds, 1, Len(ds) - 1)) + DigitVal(ds[Len(ds)])

\* R:G:B, three non-empty runs of decimal digits, each at most 255
WellFormedColor(s) ==
    /\ Cardinality({i \in 1..Len(s) : s[i] = ":"}) = 2
    /\ \A i \in 1..Len(s) : s[i] = ":" \/ IsDigit(s[i])
    /\ \A part \in {Split(s)[k] : k \in 1..Len(Split(s))} :
          part # <<>> /\ DecimalValue(part) <= 255

ConfigurationError ==
    \/ args.colors = <<>>
    \/ args.width = 0
    \/ args.height = 0
    \/ \E i \in 1..Len(args.colors) : ~WellFormedColor(args.colors[i])

\* the fractal's while loop of the pixel recorded in `pixel` has ended
FractalLoopEnded ==
    /\ command = "fractal"
    /\ pc \in {"fractal_pixel", "save", "done", "panicked"}
    /\ checks # <<>>

----------------------------------------------------------------------------
(* Properties *)

\* C1: for every non-empty colour list and width, height > 0, in both
\* orientations, generate completes, every pixel holds a colour of the list,
\* and the colour index never decreases along the partitioned axis.
C1_StripesCompleteAndMonotone ==
    (GenerateCalled /\ NumColors >= 1 /\ args.width > 0 /\ args.height > 0) =>
        /\ panic \notin GeneratePanics
        /\ \A i \in WrittenPixels : \E k \in 1..NumColors : imgbuf[i + 1] = colors[k]
        /\ \A i, j \in WrittenPixels :
              AxisCoord(i) <= AxisCoord(j) =>
                  \E ki, kj \in 1..NumColors :
                      /\ ki <= kj
                      /\ imgbuf[i + 1] = colors[ki]
                      /\ imgbuf[j + 1] = colors[kj]

\* C2: an empty colour list is rejected before generate does anything, and
\* no run ever divides by zero in the band computation.
C2_EmptyColorsRejected ==
    /\ panic # "DivideByZero"
    /\ (command = "generate" /\ args.colors = <<>>) =>
           pc \notin {"generate_loop", "save", "done"}

\* C3: every pixel whose coordinate lies at or beyond N * (axis_length / N)
\* is processed without failure and receives the last colour.
C3_RemainderAbsorbed ==
    (GenerateCalled /\ NumColors >= 1 /\ AxisLength \div NumColors > 0) =>
        \A i \in 0..(args.width * args.height - 1) :
            AxisCoord(i) >= NumColors * (AxisLength \div NumColors) =>
                /\ i \in WrittenPixels => imgbuf[i + 1] = colors[NumColors]
                /\ ~(i = next /\ panic = "ColorIndexOutOfBounds")

ExampleArgs ==
    [width |-> 4, height |-> 2, stripe_orientation |-> "Vertical",
     colors |-> <<Red255, Green255>>]

PureRed == Color(255, 0, 0)
PureGreen == Color(0, 255, 0)

\* C4: a written pixel at axis coordinate c holds colors[k] for the k with
\* k * band <= c < (k + 1) * band, band = axis_length / N (floor), whatever
\* its other coordinate; the 4 x 2 vertical red/green example comes out as
\* columns 0-1 red and 2-3 green in both rows.
C4_FloorDivisionBands ==
    /\ GenerateCalled =>
          \A i \in WrittenPixels :
              LET band == AxisLength \div NumColors
              IN  /\ band > 0
                  /\ \E k \in 0..(NumColors - 1) :
                        /\ k * band <= AxisCoord(i)
                        /\ AxisCoord(i) < (k + 1) * band
                        /\ imgbuf[i + 1] = colors[k + 1]
                        /\ \A j \in WrittenPixels :
                              AxisCoord(j) = AxisCoord(i) => imgbuf[j + 1] = colors[k + 1]
    /\ (command = "generate" /\ args = ExampleArgs /\ pc \in {"save", "done"}) =>
          imgbuf = <<PureRed, PureRed, PureGreen, PureGreen,
                     PureRed, PureRed, PureGreen, PureGreen>>

C4_Witness ==
    /\ command = "generate" /\ args = ExampleArgs /\ pc = "save"
    /\ next = 8

\* C5: a colour argument is accepted only when it is exactly three decimal
\* components in 0..255 separated by ":", and the accepted colour holds
\* those values unaltered.
C5_OnlyWellFormedAccepted ==
    GenerateCalled =>
        /\ Len(colors) = Len(args.colors)
        /\ \A i \in 1..Len(args.colors) :
              /\ WellFormedColor(args.colors[i])
              /\ colors[i] = Color(DecimalValue(Split(args.colors[i])[1]),
                                   DecimalValue(Split(args.colors[i])[2]),
                                   DecimalValue(Split(args.colors[i])[3]))

\* C6: with any configuration error no pixel is ever computed and the save
\* step is never reached, so no file is written.
C6_ConfigErrorBeforePixels ==
    (command = "generate" /\ ConfigurationError) =>
        /\ next = 0
        /\ pc \notin {"save", "done"}
        /\ panic \notin GeneratePanics \cup {"SaveError"}
        /\ outfile = "absent"

\* C7: with width = 0 or height = 0 the buffer is never built and the save
\* step is never reached.
C7_ZeroDimensionRejected ==
    (command = "generate" /\ (args.width = 0 \/ args.height = 0)) =>
        /\ pc \notin {"generate_loop", "save", "done"}
        /\ panic # "SaveError"

\* C8: with exactly one colour and width, height > 0, in either orientation,
\* generate does not fail and every pixel of the finished buffer is that colour.
C8_SingleColorUniform ==
    (GenerateCalled /\ NumColors = 1 /\ args.width > 0 /\ args.height > 0) =>
        /\ panic \notin GeneratePanics
        /\ \A i \in WrittenPixels : imgbuf[i + 1] = colors[1]
        /\ pc \in {"save", "done"} =>
              /\ next = args.width * args.height
              /\ imgbuf = [i \in 1..(args.width * args.height) |-> colors[1]]

C8_Witness ==
    /\ GenerateCalled /\ NumColors = 1 /\ pc = "save"
    /\ args.width = MaxDim /\ args.height > 1
    /\ args.stripe_orientation = "Horizontal"

\* C9: green stays in 0..255, counts the iterations one by one (at most
\* 255), ends at 255 only after 255 tests all found |z| <= 2.0, and ends at
\* g < 255 exactly when the first test that finds |z| > 2.0 is test g + 1.
C9_EscapeTimeLoop ==
    /\ green \in 0..255
    /\ Len(checks) <= 255
    /\ pc = "fractal_while" =>
          /\ Len(checks) = green
          /\ \A i \in 1..Len(checks) : checks[i]
    /\ FractalLoopEnded =>
          /\ pixel.rgb.green = green
          /\ green = 255 =>
                /\ Len(checks) = 255
                /\ \A i \in 1..255 : checks[i]
          /\ green < 255 =>
                /\ Len(checks) = green + 1
                /\ ~checks[green + 1]
                /\ \A i \in 1..green : checks[i]
          /\ \A g \in 0..254 :
                (g + 1 <= Len(checks) /\ ~checks[g + 1]
                     /\ \A i \in 1..g : checks[i]) => green = g

C9_Witness ==
    /\ FractalLoopEnded
    /\ green = 255
    /\ Len(checks) = 255

\* C10: on the 800 x 800 canvas red = floor(0.3 x) and blue = floor(0.3 y),
\* reduced modulo 256, and the unreduced values never exceed 255.
C10_GradientChannels ==
    /\ pc = "fractal_while" =>
          /\ red = ((3 * fx) \div 10) % 256
          /\ blue = ((3 * fy) \div 10) % 256
    /\ FractalLoopEnded =>
          /\ pixel.x \in 0..(Width - 1) /\ pixel.y \in 0..(Height - 1)
          /\ pixel.rgb.red = ((3 * pixel.x) \div 10) % 256
          /\ pixel.rgb.blue = ((3 * pixel.y) \div 10) % 256
          /\ (3 * pixel.x) \div 10 <= 255
          /\ (3 * pixel.y) \div 10 <= 255

C10_Witness ==
    /\ FractalLoopEnded
    /\ pixel.x = Width - 1
    /\ pixel.rgb.red = 239
    /\ pixel.y > 0 /\ pixel.rgb.blue > 0

====
